---- MODULE Spec2Model ----
(***************************************************************************)
(* A model of video_progress_simulator.py: the console program main, the   *)
(* two workflows of VideoProgressSimulator (simulate_video_watching and    *)
(* fast_complete) and the requests they issue.                             *)
(*                                                                         *)
(* Python floats are IEEE-754 binary64 values.  The loop of                *)
(* simulate_video_watching accumulates current_time and truncates          *)
(* (current_time / video_duration) * 100, so the rounding of every         *)
(* operation decides the percentages that are sent.  The model therefore   *)
(* computes with binary64 values: a 53-bit significand, held as a sequence *)
(* of 15-bit limbs, and round-half-to-even after every operation.          *)
(***************************************************************************)
EXTENDS Integers, Sequences, FiniteSets, TLC

(***************************************************************************)
(* Natural numbers of any size: little-endian sequences of limbs below     *)
(* LimbBase, with no zero limb at the top; <<>> is zero.                   *)
(***************************************************************************)
LimbBits == 15
LimbBase == 2 ^ LimbBits

\* F(a), F(a, b), ... with the arguments evaluated once, before F's body
Let1(F(_), a) == CHOOSE r \in {F(x) : x \in {a}} : TRUE
Let2(F(_, _), a, b) == CHOOSE r \in {F(x, y) : x \in {a}, y \in {b}} : TRUE
Let3(F(_, _, _), a, b, c) ==
    CHOOSE r \in {F(x, y, z) : x \in {a}, y \in {b}, z \in {c}} : TRUE

Pow2(k) == 2 ^ k

Limb(a, i) == IF i <= Len(a) THEN a[i] ELSE 0

\* a without the zero limbs at its top
NTrim(a) ==
    Let1(LAMBDA nz : IF nz = {} THEN <<>>
                     ELSE SubSeq(a, 1, CHOOSE m \in nz : \A j \in nz : j <= m),
         {i \in DOMAIN a : a[i] # 0})

NFromInt(n) ==
    NTrim(<<n % LimbBase, (n \div LimbBase) % LimbBase,
            n \div (LimbBase * LimbBase)>>)

RECURSIVE NToIntAt(_, _)
NToIntAt(a, i) ==
    IF i > Len(a) THEN 0 ELSE a[i] + LimbBase * NToIntAt(a, i + 1)

NToInt(a) == Let1(LAMBDA x : NToIntAt(x, 1), a)

RECURSIVE NAddC(_, _, _, _)
NAddC(a, b, i, c) ==
    IF i > Len(a) /\ i > Len(b)
    THEN (IF c = 0 THEN <<>> ELSE <<c>>)
    ELSE Let1(LAMBDA t : <<t % LimbBase>> \o NAddC(a, b, i + 1, t \div LimbBase),
              Limb(a, i) + Limb(b, i) + c)

NAdd(a, b) == Let2(LAMBDA x, y : NAddC(x, y, 1, 0), a, b)

\* a - b for a >= b
RECURSIVE NSubB(_, _, _, _)
NSubB(a, b, i, w) ==
    IF i > Len(a) THEN <<>>
    ELSE Let1(LAMBDA t : IF t < 0
                         THEN <<t + LimbBase>> \o NSubB(a, b, i + 1, 1)
                         ELSE <<t>> \o NSubB(a, b, i + 1, 0),
              Limb(a, i) - Limb(b, i) - w)

NSub(a, b) == Let2(LAMBDA x, y : NTrim(NSubB(x, y, 1, 0)), a, b)

\* -1, 0, 1 as a < b, a = b, a > b
RECURSIVE NCmpAt(_, _, _)
NCmpAt(a, b, i) ==
    IF i = 0 THEN 0
    ELSE IF a[i] < b[i] THEN -1
    ELSE IF a[i] > b[i] THEN 1
    ELSE NCmpAt(a, b, i - 1)

NCmp(a, b) ==
    Let2(LAMBDA x, y : IF Len(x) < Len(y) THEN -1
                       ELSE IF Len(x) > Len(y) THEN 1
                       ELSE NCmpAt(x, y, Len(x)),
         a, b)

\* a * x for a limb x
RECURSIVE NMulSmallC(_, _, _, _)
NMulSmallC(a, x, i, c) ==
    IF i > Len(a)
    THEN (IF c = 0 THEN <<>> ELSE <<c>>)
    ELSE Let1(LAMBDA t : <<t % LimbBase>> \o NMulSmallC(a, x, i + 1, t \div LimbBase),
              a[i] * x + c)

NMulSmall(a, x) ==
    Let2(LAMBDA y, z : IF z = 0 THEN <<>> ELSE NMulSmallC(y, z, 1, 0), a, x)

Zeros(n) == [i \in 1..n |-> 0]

RECURSIVE NMulAt(_, _, _)
NMulAt(a, b, j) ==
    IF j > Len(b) THEN <<>>
    ELSE NAdd(IF b[j] = 0 THEN <<>> ELSE Zeros(j - 1) \o NMulSmall(a, b[j]),
              NMulAt(a, b, j + 1))

NMul(a, b) == Let2(LAMBDA x, y : NMulAt(x, y, 1), a, b)

\* a * 2^k
NShl(a, k) ==
    Let2(LAMBDA x, n : IF x = <<>> THEN <<>>
                       ELSE Zeros(n \div LimbBits) \o NMulSmall(x, Pow2(n % LimbBits)),
         a, k)

\* the quotient of a by a limb x > 0, from the top limb down
RECURSIVE NDivSmallR(_, _, _, _)
NDivSmallR(a, x, i, r) ==
    IF i = 0 THEN <<>>
    ELSE Let1(LAMBDA t : NDivSmallR(a, x, i - 1, t % x) \o <<t \div x>>,
              r * LimbBase + a[i])

NDivSmall(a, x) == Let2(LAMBDA y, z : NTrim(NDivSmallR(y, z, Len(y), 0)), a, x)

\* floor(a / 2^k)
NShr(a, k) ==
    Let2(LAMBDA x, n : IF n \div LimbBits >= Len(x) THEN <<>>
                       ELSE NDivSmall(SubSeq(x, n \div LimbBits + 1, Len(x)),
                                      Pow2(n % LimbBits)),
         a, k)

RECURSIVE BitLenSmall(_)
BitLenSmall(x) == IF x = 0 THEN 0 ELSE 1 + BitLenSmall(x \div 2)

NBitLen(a) ==
    Let1(LAMBDA x : IF x = <<>> THEN 0
                    ELSE (Len(x) - 1) * LimbBits + BitLenSmall(x[Len(x)]),
         a)

NIsOdd(a) == Let1(LAMBDA x : x # <<>> /\ x[1] % 2 = 1, a)

\* The digit of the quotient for the running remainder r of a long division
\* by b.  b has its top limb at least LimbBase / 2, so the digit estimated
\* from the top limbs of r is the true digit or exceeds it by at most 2.
NDigit(r, b) ==
    Let1(LAMBDA est :
           Let1(LAMBDA d0 : IF NCmp(NMulSmall(b, d0), r) <= 0 THEN d0
                            ELSE IF NCmp(NMulSmall(b, d0 - 1), r) <= 0 THEN d0 - 1
                            ELSE d0 - 2,
                IF est > LimbBase - 1 THEN LimbBase - 1 ELSE est),
         (Limb(r, Len(b) + 1) * LimbBase + Limb(r, Len(b))) \div b[Len(b)])

\* <<quotient, remainder>> of a by b # 0: long division, one limb of the
\* quotient at a time from the top limb of a down
RECURSIVE NDivModAt(_, _, _, _, _)
NDivModAt(a, b, i, q, r) ==
    IF i = 0 THEN <<NTrim(q), r>>
    ELSE Let1(LAMBDA r2 :
                Let1(LAMBDA d :
                       Let2(LAMBDA q3, r3 : NDivModAt(a, b, i - 1, q3, r3),
                            <<d>> \o q, NSub(r2, NMulSmall(b, d))),
                     NDigit(r2, b)),
              NTrim(<<a[i]>> \o r))

\* the remainder is that of the operands scaled by 2^s: zero exactly when
\* the true remainder is
NDivMod(a, b) ==
    Let3(LAMBDA x, y, s : Let2(LAMBDA xs, ys : NDivModAt(xs, ys, Len(xs), <<>>, <<>>),
                               NShl(x, s), NShl(y, s)),
         a, b, (LimbBits - (NBitLen(b) % LimbBits)) % LimbBits)

(***************************************************************************)
(* binary64 values.  A finite value is [sgn, man, exp] and stands for      *)
(* (-1)^sgn * man * 2^exp, with man = <<>> (zero, sgn = 0, exp = 0) or     *)
(* 2^52 <= man < 2^53, so equal numbers are equal records.  The exponent   *)
(* range of binary64 (overflow, subnormals) is never approached by the     *)
(* magnitudes of this model and is not represented; the sign of a zero is  *)
(* dropped (0.0 + -0.0 is 0.0 in the only place a negative zero arises).   *)
(***************************************************************************)
Precision == 53

FZero == [sgn |-> 0, man |-> <<>>, exp |-> 0]

\* n of more than Precision bits, cut to Precision bits: q is n without its
\* low sh bits, rounded up when the bits cut off are more than half a unit
\* of q, or exactly half with sticky set or q odd
FRoundCut(sgn, n, e, sticky, sh) ==
    Let1(LAMBDA q :
           Let1(LAMBDA c :
                  Let1(LAMBDA q2 :
                         IF NBitLen(q2) > Precision
                         THEN [sgn |-> sgn, man |-> NShr(q2, 1), exp |-> e + sh + 1]
                         ELSE [sgn |-> sgn, man |-> q2, exp |-> e + sh],
                       IF c > 0 \/ (c = 0 /\ (sticky \/ NIsOdd(q)))
                       THEN NAdd(q, <<1>>) ELSE q),
                NCmp(NSub(n, NShl(q, sh)), NShl(<<1>>, sh - 1))),
         NShr(n, sh))

\* (-1)^sgn * n * 2^e rounded to nearest, ties to even; sticky: the exact
\* value lies strictly above n * 2^e in magnitude (bits beyond n were dropped)
FRound(sgn, n, e, sticky) ==
    Let2(LAMBDA x, bl :
           IF x = <<>> THEN FZero
           ELSE IF bl <= Precision
           THEN [sgn |-> sgn, man |-> NShl(x, Precision - bl),
                 exp |-> e - (Precision - bl)]
           ELSE FRoundCut(sgn, x, e, sticky, bl - Precision),
         n, NBitLen(n))

\* float(n) for an integer n
FFromInt(n) ==
    IF n < 0 THEN FRound(1, NFromInt(-n), 0, FALSE)
    ELSE FRound(0, NFromInt(n), 0, FALSE)

\* a * b
FMul(a, b) ==
    Let2(LAMBDA x, y :
           IF x.man = <<>> \/ y.man = <<>> THEN FZero
           ELSE FRound((x.sgn + y.sgn) % 2, NMul(x.man, y.man), x.exp + y.exp, FALSE),
         a, b)

\* a / b.  Python raises ZeroDivisionError for b = 0, which no run reaches:
\* the division is in the loop body, and with video_duration = 0 the loop
\* test 0.0 < video_duration fails at once.  That case has no value here.
FDiv(a, b) ==
    Let2(LAMBDA x, y :
           CASE y.man # <<>> ->
               IF x.man = <<>> THEN FZero
               ELSE Let1(LAMBDA qr : FRound((x.sgn + y.sgn) % 2, qr[1],
                                            x.exp - y.exp - (Precision + 3),
                                            qr[2] # <<>>),
                         NDivMod(NShl(x.man, Precision + 3), y.man)),
         a, b)

\* a + b.  current_time and the step added to it always have the same sign
\* (current_time is 0.0 plus a number of such steps), so the subtraction of
\* magnitudes is never needed and has no value here
FAdd(a, b) ==
    Let2(LAMBDA x, y :
           CASE x.man = <<>> -> y
             [] y.man = <<>> -> x
             [] x.man # <<>> /\ y.man # <<>> /\ x.sgn = y.sgn ->
                   Let1(LAMBDA e : FRound(x.sgn,
                                          NAdd(NShl(x.man, x.exp - e),
                                               NShl(y.man, y.exp - e)),
                                          e, FALSE),
                        IF x.exp < y.exp THEN x.exp ELSE y.exp),
         a, b)

\* -1, 0, 1 for the sign of a
FSign(a) == IF a.man = <<>> THEN 0 ELSE IF a.sgn = 1 THEN -1 ELSE 1

\* the order of the magnitudes of two nonzero values: -1, 0, 1
FCmpMag(a, b) ==
    IF a.exp < b.exp THEN -1
    ELSE IF a.exp > b.exp THEN 1
    ELSE NCmp(a.man, b.man)

\* a < b
FLt(a, b) ==
    Let2(LAMBDA x, y :
           IF FSign(x) # FSign(y) THEN FSign(x) < FSign(y)
           ELSE IF FSign(x) = 0 THEN FALSE
           ELSE IF FSign(x) = 1 THEN FCmpMag(x, y) < 0
           ELSE FCmpMag(x, y) > 0,
         a, b)

\* a >= b
FGe(a, b) == ~FLt(a, b)

\* int(a): truncation toward zero
FTrunc(a) ==
    Let1(LAMBDA x :
           IF x.man = <<>> THEN 0
           ELSE IF x.exp >= 0
           THEN (IF x.sgn = 1 THEN -1 ELSE 1) * NToInt(NShl(x.man, x.exp))
           ELSE (IF x.sgn = 1 THEN -1 ELSE 1) * NToInt(NShr(x.man, -x.exp)),
         a)

(***************************************************************************)
(* Console entries.  A line typed at a prompt is a record: its text, and,  *)
(* when the text is a decimal number, the integers num and dec with        *)
(* value num / 10^dec.                                                     *)
(***************************************************************************)
Num(t, n, d) == [txt |-> t, numeric |-> TRUE, num |-> n, dec |-> d]
Text(t) == [txt |-> t, numeric |-> FALSE, num |-> 0, dec |-> 0]
Blank == Text("")
NotAsked == Text("<not asked>")

\* float(entry.txt) for a numeric entry: the binary64 value nearest to
\* num / 10^dec (num and 10^dec are exact, and the division rounds once)
float(entry) == FDiv(FFromInt(entry.num), FFromInt(10 ^ entry.dec))

None == "None"

\* the most loop iterations of simulate_video_watching a run is followed for
MaxIter == 14

DurationEntries ==
    {Num("10", 10, 0), Num("1", 1, 0), Num("0", 0, 0), Num("-5", -5, 0), Text("abc")}
SpeedEntries ==
    {Blank, Num("2.0", 20, 1), Num("-1.0", -10, 1), Num("0", 0, 0), Text("fast")}
IntervalEntries ==
    {Blank, Num("0.4", 4, 1), Num("0.1", 1, 1), Num("-1", -1, 0), Text("x")}
YhdmEntries == {"", "2021000"}
ChoiceEntries == {"1", "2", "3"}

\* input(...).strip() or "1.0"  /  or "5.0"
SpeedOrDefault(entry) == IF entry.txt = "" THEN Num("1.0", 10, 1) ELSE entry
IntervalOrDefault(entry) == IF entry.txt = "" THEN Num("5.0", 50, 1) ELSE entry

(***************************************************************************)
(* The pasted text, by what the four patterns of parse_curl_command find   *)
(* in it: the Token header, the -b cookie, the --data-raw payload (absent, *)
(* not JSON, or an object whose three keys are each missing, empty or      *)
(* set) and the yhdm= digits.                                              *)
(***************************************************************************)
NoData == [found |-> FALSE, json |-> FALSE, kcnrid |-> None, kcid |-> None, ssmlid |-> None]
NotJson == [found |-> TRUE, json |-> FALSE, kcnrid |-> None, kcid |-> None, ssmlid |-> None]
JsonData ==
    [found : {TRUE}, json : {TRUE}, kcnrid : {None, "", "1"},
     kcid : {None, "", "2"}, ssmlid : {None, "", "3"}]

CurlTexts ==
    [token : {None, "abc123"}, cookie : {None, "cookievalue"},
     data : {NoData, NotJson} \cup JsonData, yhdm : {None, "2021000"}]

parse_curl_command(curl_text) ==
    LET parsed_json == curl_text.data.found /\ curl_text.data.json
    IN  [token  |-> curl_text.token,
         cookie |-> curl_text.cookie,
         kcnrid |-> IF parsed_json THEN curl_text.data.kcnrid ELSE None,
         kcid   |-> IF parsed_json THEN curl_text.data.kcid ELSE None,
         ssmlid |-> IF parsed_json THEN curl_text.data.ssmlid ELSE None,
         yhdm   |-> curl_text.yhdm]

\* Python truth of an optional string
Truthy(v) == v # None /\ v # ""

\* the check with ssmlid left out of the list
AllRequiredNoSsmlid(p) ==
    /\ Truthy(p.token)
    /\ Truthy(p.cookie)
    /\ Truthy(p.kcnrid)
    /\ Truthy(p.kcid)

\* all([token, cookie, kcnrid, kcid, ssmlid])
AllRequired(p) ==
    /\ Truthy(p.token)
    /\ Truthy(p.cookie)
    /\ Truthy(p.kcnrid)
    /\ Truthy(p.kcid)
    /\ Truthy(p.ssmlid)

(***************************************************************************)
(* The requests: endpoint and payload.                                     *)
(***************************************************************************)
add_record(kcnrid, kcid) ==
    [ep |-> "addNrydjlb", kcnrid |-> kcnrid, kcid |-> kcid, nrlx |-> "99"]

save_user_behavior(yhdm) == [ep |-> "saveYh", yhdm |-> yhdm]

update_online_count(kcid) == [ep |-> "updKczxrs", kcid |-> kcid]

update_progress(kcnrid, kcid, bfjd, bfsj, ssmlid, sfyd) ==
    [ep |-> "updKcnrSfydNew", bfjd |-> bfjd, kcnrid |-> kcnrid, kcid |-> kcid,
     sfyd |-> sfyd, bfsj |-> bfsj, ssmlid |-> ssmlid]

VARIABLES
    pc,               \* the statement the program is at
    parsed,           \* the tuple parse_curl_command returned
    entered,          \* the lines typed at the prompts
    yhdm,             \* the learner identifier main settled on
    video_duration,   \* float(duration entry)
    speed,            \* float(speed entry or "1.0")
    update_interval,  \* float(interval entry or "5.0")
    current_time,     \* simulate_video_watching's elapsed seconds
    progress,         \* the percentage of the current loop iteration
    sfyd,             \* the fully-read flag of the current loop iteration
    log,              \* the requests issued so far, in order
    failed,           \* the endpoints a call to which has failed
    returned          \* what the workflow returned: "True", "False", or
                      \* "raised" when an exception left it; None before

vars == <<pc, parsed, entered, yhdm, video_duration, speed, update_interval,
          current_time, progress, sfyd, log, failed, returned>>

NothingEntered ==
    [yhdm |-> None, duration |-> NotAsked, choice |-> None,
     speed |-> NotAsked, interval |-> NotAsked]

NothingParsed ==
    [token |-> None, cookie |-> None, kcnrid |-> None, kcid |-> None,
     ssmlid |-> None, yhdm |-> None]

Init ==
    /\ pc = "read_curl"
    /\ parsed = NothingParsed
    /\ entered = NothingEntered
    /\ yhdm = None
    /\ video_duration = FZero
    /\ speed = FZero
    /\ update_interval = FZero
    /\ current_time = FZero
    /\ progress = 0
    /\ sfyd = "0"
    /\ log = <<>>
    /\ failed = {}
    /\ returned = None

\* one HTTP call: the request goes out, the transport answers ok or not
\* (status 200, or anything else: another status, a timeout, an exception)
Call(req, ok) ==
    /\ log' = Append(log, req)
    /\ failed' = IF ok THEN failed ELSE failed \cup {req.ep}

Quiet == UNCHANGED <<log, failed>>

(***************************************************************************)
(* main                                                                    *)
(***************************************************************************)
\* the pasted text is read and parsed; a missing required field ends main
ReadCurl ==
    /\ pc = "read_curl"
    /\ \E curl_text \in CurlTexts :
          /\ parsed' = parse_curl_command(curl_text)
          /\ pc' = IF AllRequired(parsed') THEN "get_yhdm" ELSE "exit"
    /\ Quiet
    /\ UNCHANGED <<entered, yhdm, video_duration, speed, update_interval,
                   current_time, progress, sfyd, returned>>

\* the learner identifier: from the text, or typed; an empty one ends main
GetYhdm ==
    /\ pc = "get_yhdm"
    /\ IF Truthy(parsed.yhdm)
       THEN /\ yhdm' = parsed.yhdm
            /\ pc' = "get_duration"
            /\ UNCHANGED entered
       ELSE \E line \in YhdmEntries :
              /\ entered' = [entered EXCEPT !.yhdm = line]
              /\ yhdm' = line
              /\ pc' = IF line = "" THEN "exit" ELSE "get_duration"
    /\ Quiet
    /\ UNCHANGED <<parsed, video_duration, speed, update_interval,
                   current_time, progress, sfyd, returned>>

\* the duration: float() of the line; a ValueError ends main
GetDuration ==
    /\ pc = "get_duration"
    /\ \E line \in DurationEntries :
          /\ entered' = [entered EXCEPT !.duration = line]
          /\ IF line.numeric
             THEN video_duration' = float(line) /\ pc' = "choose"
             ELSE UNCHANGED video_duration /\ pc' = "exit"
    /\ Quiet
    /\ UNCHANGED <<parsed, yhdm, speed, update_interval,
                   current_time, progress, sfyd, returned>>

\* the mode: "1" asks for speed and interval, "2" starts fast_complete,
\* anything else is reported as invalid and main ends
ChooseMode ==
    /\ pc = "choose"
    /\ \E line \in ChoiceEntries :
          /\ entered' = [entered EXCEPT !.choice = line]
          /\ pc' = CASE line = "1" -> "get_speed"
                     [] line = "2" -> "B_add_record"
                     [] OTHER -> "exit"
    /\ Quiet
    /\ UNCHANGED <<parsed, yhdm, video_duration, speed, update_interval,
                   current_time, progress, sfyd, returned>>

\* a ValueError of float() here is caught by main's except Exception
GetSpeed ==
    /\ pc = "get_speed"
    /\ \E line \in SpeedEntries :
          /\ entered' = [entered EXCEPT !.speed = line]
          /\ IF SpeedOrDefault(line).numeric
             THEN speed' = float(SpeedOrDefault(line)) /\ pc' = "get_interval"
             ELSE UNCHANGED speed /\ pc' = "exit"
    /\ Quiet
    /\ UNCHANGED <<parsed, yhdm, video_duration, update_interval,
                   current_time, progress, sfyd, returned>>

\* the exact value of interval * speed is positive
StepPositive(s, i) == s.num * i.num > 0

\* for entries d > 0 and i * s > 0: d / (i * s) + 1 <= n, in integers
BoundWithin(d, s, i, n) ==
    d.num * (10 ^ (s.dec + i.dec)) <= (n - 1) * s.num * i.num * (10 ^ d.dec)

\* The runs followed: a run whose loop ends is followed when its bound
\* duration / (interval * speed) + 1 is within MaxIter; a run whose loop
\* never runs, never ends or is left by an exception is always followed.
Followed(d, s, i) ==
    (d.num > 0 /\ StepPositive(s, i) /\ i.num > 0) => BoundWithin(d, s, i, MaxIter)

GetInterval ==
    /\ pc = "get_interval"
    /\ \E line \in IntervalEntries :
          /\ IntervalOrDefault(line).numeric =>
                Followed(entered.duration, SpeedOrDefault(entered.speed),
                         IntervalOrDefault(line))
          /\ entered' = [entered EXCEPT !.interval = line]
          /\ IF IntervalOrDefault(line).numeric
             THEN /\ update_interval' = float(IntervalOrDefault(line))
                  /\ pc' = "A_add_record"
             ELSE UNCHANGED update_interval /\ pc' = "exit"
    /\ Quiet
    /\ UNCHANGED <<parsed, yhdm, video_duration, speed,
                   current_time, progress, sfyd, returned>>

main == ReadCurl \/ GetYhdm \/ GetDuration \/ ChooseMode \/ GetSpeed \/ GetInterval


(***************************************************************************)
(* simulate_video_watching                                                 *)
(***************************************************************************)
Min(a, b) == IF a < b THEN a ELSE b

\* the percentage rounded to the nearest integer instead of cut
ProgressRounded(ct, duration) ==
    Min(FTrunc(FMul(FDiv(ct, duration), FFromInt(1000))) \div 10
          + (IF FTrunc(FMul(FDiv(ct, duration), FFromInt(1000))) % 10 >= 5 THEN 1 ELSE 0),
        100)

\* progress = int((current_time / video_duration) * 100); min(progress, 100)
Progress(ct, duration) ==
    Min(FTrunc(FMul(FDiv(ct, duration), FFromInt(100))), 100)

\* the flag set one percent early
SfydFrom99(p) == IF p >= 99 THEN "1" ELSE "0"

\* sfyd = "1" if progress >= 100 else "0"
Sfyd(p) == IF p >= 100 THEN "1" ELSE "0"

\* while current_time < video_duration
LoopCondition(ct, duration) == FLt(ct, duration)

\* the step without the speed factor
AdvanceNoSpeed(ct, interval, spd) == FAdd(ct, interval)

\* current_time += update_interval * speed
Advance(ct, interval, spd) == FAdd(ct, FMul(interval, spd))

\* time.sleep(secs) raises ValueError for a negative length
SleepRaises(secs) == FSign(secs) < 0

\* the final test with > for >=
FinalConditionStrict(ct, duration) == FLt(duration, ct)

\* if current_time >= video_duration (after the loop)
FinalCondition(ct, duration) == FGe(ct, duration)

\* the loop iterations begun: each begins with one save_user_behavior call
Iterations == Cardinality({n \in DOMAIN log : log[n].ep = "saveYh"})

\* add_record's result ignored
IgnoreAddRecord(ok) == "A_online_count"

\* where simulate_video_watching goes on the result of add_record
AfterAddRecordA(ok) == IF ok THEN "A_online_count" ELSE "exit"

\* the loop left when update_progress fails
AbortOnFailedUpdate(ok, p) == IF ~ok \/ p >= 100 THEN "A_final" ELSE "A_sleep"

\* where the loop goes after update_progress returned ok: its result is only
\* printed; the loop breaks on progress >= 100 and sleeps otherwise
AfterUpdateProgress(ok, p) == IF p >= 100 THEN "A_final" ELSE "A_sleep"

\* if not self.add_record(kcnrid, kcid): return False
A_AddRecord ==
    /\ pc = "A_add_record"
    /\ \E ok \in BOOLEAN :
          /\ Call(add_record(parsed.kcnrid, parsed.kcid), ok)
          /\ pc' = AfterAddRecordA(ok)
          /\ returned' = IF pc' = "exit" THEN "False" ELSE returned
    /\ UNCHANGED <<parsed, entered, yhdm, video_duration, speed,
                   update_interval, current_time, progress, sfyd>>

\* self.update_online_count(kcid); current_time = 0.0
A_OnlineCount ==
    /\ pc = "A_online_count"
    /\ \E ok \in BOOLEAN : Call(update_online_count(parsed.kcid), ok)
    /\ current_time' = FZero
    /\ pc' = "A_loop"
    /\ UNCHANGED <<parsed, entered, yhdm, video_duration, speed,
                   update_interval, progress, sfyd, returned>>

\* the loop test and the computation of progress and sfyd
A_LoopTest ==
    /\ pc = "A_loop"
    /\ IF LoopCondition(current_time, video_duration)
       THEN /\ Iterations < MaxIter
            /\ progress' = Progress(current_time, video_duration)
            /\ sfyd' = Sfyd(progress')
            /\ pc' = "A_save_user"
       ELSE /\ pc' = "A_final"
            /\ UNCHANGED <<progress, sfyd>>
    /\ Quiet
    /\ UNCHANGED <<parsed, entered, yhdm, video_duration, speed,
                   update_interval, current_time, returned>>

\* self.save_user_behavior(yhdm)
A_SaveUser ==
    /\ pc = "A_save_user"
    /\ \E ok \in BOOLEAN : Call(save_user_behavior(yhdm), ok)
    /\ pc' = "A_update_progress"
    /\ UNCHANGED <<parsed, entered, yhdm, video_duration, speed,
                   update_interval, current_time, progress, sfyd, returned>>

\* self.update_progress(..., progress, current_time, ssmlid, sfyd), then the
\* test for the break
A_UpdateProgress ==
    /\ pc = "A_update_progress"
    /\ \E ok \in BOOLEAN :
          /\ Call(update_progress(parsed.kcnrid, parsed.kcid, progress,
                                  current_time, parsed.ssmlid, sfyd), ok)
          /\ pc' = AfterUpdateProgress(ok, progress)
    /\ UNCHANGED <<parsed, entered, yhdm, video_duration, speed,
                   update_interval, current_time, progress, sfyd, returned>>

\* time.sleep(update_interval); current_time += update_interval * speed.
\* The ValueError of a negative sleep leaves the function; main catches it.
A_Sleep ==
    /\ pc = "A_sleep"
    /\ IF SleepRaises(update_interval)
       THEN /\ returned' = "raised"
            /\ pc' = "exit"
            /\ UNCHANGED current_time
       ELSE /\ current_time' = Advance(current_time, update_interval, speed)
            /\ pc' = "A_loop"
            /\ UNCHANGED returned
    /\ Quiet
    /\ UNCHANGED <<parsed, entered, yhdm, video_duration, speed,
                   update_interval, progress, sfyd>>

\* after the loop: the forced update_progress(100, video_duration, "1") when
\* current_time >= video_duration; return True
A_Final ==
    /\ pc = "A_final"
    /\ IF FinalCondition(current_time, video_duration)
       THEN \E ok \in BOOLEAN :
               Call(update_progress(parsed.kcnrid, parsed.kcid, 100,
                                    video_duration, parsed.ssmlid, "1"), ok)
       ELSE Quiet
    /\ returned' = "True"
    /\ pc' = "exit"
    /\ UNCHANGED <<parsed, entered, yhdm, video_duration, speed,
                   update_interval, current_time, progress, sfyd>>

simulate_video_watching ==
    \/ A_AddRecord
    \/ A_OnlineCount
    \/ A_LoopTest
    \/ A_SaveUser
    \/ A_UpdateProgress
    \/ A_Sleep
    \/ A_Final

(***************************************************************************)
(* fast_complete                                                           *)
(***************************************************************************)
\* where fast_complete goes on the result of add_record
AfterAddRecordB(ok) == IF ok THEN "B_online_count" ELSE "exit"

\* True whatever the last update answered
AlwaysTrue(ok) == "True"

\* return success
ResultB(ok) == IF ok THEN "True" ELSE "False"

B_AddRecord ==
    /\ pc = "B_add_record"
    /\ \E ok \in BOOLEAN :
          /\ Call(add_record(parsed.kcnrid, parsed.kcid), ok)
          /\ pc' = AfterAddRecordB(ok)
          /\ returned' = IF pc' = "exit" THEN "False" ELSE returned
    /\ UNCHANGED <<parsed, entered, yhdm, video_duration, speed,
                   update_interval, current_time, progress, sfyd>>

B_OnlineCount ==
    /\ pc = "B_online_count"
    /\ \E ok \in BOOLEAN : Call(update_online_count(parsed.kcid), ok)
    /\ pc' = "B_save_user"
    /\ UNCHANGED <<parsed, entered, yhdm, video_duration, speed,
                   update_interval, current_time, progress, sfyd, returned>>

B_SaveUser ==
    /\ pc = "B_save_user"
    /\ \E ok \in BOOLEAN : Call(save_user_behavior(yhdm), ok)
    /\ pc' = "B_update_progress"
    /\ UNCHANGED <<parsed, entered, yhdm, video_duration, speed,
                   update_interval, current_time, progress, sfyd, returned>>

\* success = self.update_progress(..., 100, video_duration, ssmlid, "1")
B_UpdateProgress ==
    /\ pc = "B_update_progress"
    /\ \E ok \in BOOLEAN :
          /\ Call(update_progress(parsed.kcnrid, parsed.kcid, 100,
                                  video_duration, parsed.ssmlid, "1"), ok)
          /\ returned' = ResultB(ok)
    /\ pc' = "exit"
    /\ UNCHANGED <<parsed, entered, yhdm, video_duration, speed,
                   update_interval, current_time, progress, sfyd>>

fast_complete == B_AddRecord \/ B_OnlineCount \/ B_SaveUser \/ B_UpdateProgress

Next == main \/ simulate_video_watching \/ fast_complete

Spec == Init /\ [][Next]_vars

\* The program is one thread and every call it makes ends (each request has
\* a timeout of 10 seconds, each sleep its length): a step that can be taken
\* is taken.
FairSpec == Spec /\ WF_vars(Next)
(***************************************************************************)
(* The properties.                                                         *)
(***************************************************************************)
ModeA == entered.choice = "1"
ModeB == entered.choice = "2"

\* add_record was called and answered 200
Registered == Len(log) >= 1 /\ "addNrydjlb" \notin failed

\* the entries of a Workflow A run, with the defaults filled in
D == entered.duration
S == SpeedOrDefault(entered.speed)
I == IntervalOrDefault(entered.interval)

\* a Workflow A run got its three numbers
RunningA == ModeA /\ pc \notin {"get_speed", "get_interval"} /\ D.numeric /\ S.numeric /\ I.numeric

\* duration > 0 and interval * speed > 0, exactly
PositiveRun == RunningA /\ D.num > 0 /\ StepPositive(S, I)

IsUpdate(r) == r.ep = "updKcnrSfydNew"
Updates == {n \in DOMAIN log : IsUpdate(log[n])}

\* In Workflow A the loop's requests sit at positions 3, 4, 5, 6, ...: the
\* update of iteration k (k = 0, 1, ...) at position 2k + 4; the forced final
\* update follows the last of them, at an odd position.
LoopUpdates == {n \in Updates : n % 2 = 0}
IterationOf(n) == (n - 4) \div 2

FinalRequest ==
    update_progress(parsed.kcnrid, parsed.kcid, 100, video_duration, parsed.ssmlid, "1")

Last(q) == q[Len(q)]

Finished == pc = "exit"
C2_FailedRegistrationAborts ==
    ("addNrydjlb" \in failed)
        => /\ Finished
           /\ returned = "False"
           /\ log = <<add_record(parsed.kcnrid, parsed.kcid)>>

C2_Witness ==
    /\ ModeA /\ Finished /\ "addNrydjlb" \in failed
    /\ returned = "False" /\ Len(log) = 1

\* The requests of the loop of Workflow A from current_time = ct on, when
\* k iterations have run, computed without any response: what is sent, the
\* last current_time, and how the loop was left ("ended", "raised" by
\* time.sleep, or "capped" at MaxIter iterations).
RECURSIVE LoopRun(_, _)
LoopRun(ct, k) ==
    IF ~LoopCondition(ct, video_duration)
    THEN [reqs |-> <<>>, ct |-> ct, how |-> "ended"]
    ELSE IF k = MaxIter
    THEN [reqs |-> <<>>, ct |-> ct, how |-> "capped"]
    ELSE LET p   == Progress(ct, video_duration)
             two == <<save_user_behavior(yhdm),
                      update_progress(parsed.kcnrid, parsed.kcid, p, ct,
                                      parsed.ssmlid, Sfyd(p))>>
         IN  IF p >= 100 THEN [reqs |-> two, ct |-> ct, how |-> "ended"]
             ELSE IF SleepRaises(update_interval)
             THEN [reqs |-> two, ct |-> ct, how |-> "raised"]
             ELSE LET rest == LoopRun(Advance(ct, update_interval, speed), k + 1)
                  IN  [reqs |-> two \o rest.reqs, ct |-> rest.ct, how |-> rest.how]

\* the whole request sequence of a Workflow A run after a successful
\* registration, as the entries alone determine it
RequestsOfRun ==
    LET loop == LoopRun(FZero, 0)
    IN  <<add_record(parsed.kcnrid, parsed.kcid), update_online_count(parsed.kcid)>>
        \o loop.reqs
        \o (IF loop.how = "ended" /\ FinalCondition(loop.ct, video_duration)
            THEN <<FinalRequest>> ELSE <<>>)

\* the run has sent all it will send: it is over, or stopped at MaxIter
Exhausted ==
    \/ Finished
    \/ pc = "A_loop" /\ Iterations = MaxIter
          /\ LoopCondition(current_time, video_duration)

\* C3: in Workflow A, once registration has succeeded, the requests issued
\* are those the entries determine, whichever of the later calls failed, and
\* the function returns True whenever it returns (a failed call is not
\* retried and ends nothing).
C3_FailuresChangeNothing ==
    (ModeA /\ Registered /\ Exhausted)
        => /\ log = RequestsOfRun
           /\ Finished => returned = (IF LoopRun(FZero, 0).how = "raised"
                                      THEN "raised" ELSE "True")
           /\ returned # "False"

\* a run of several iterations that returned True although calls to all
\* three endpoints failed
C3_Witness ==
    /\ ModeA /\ Registered /\ Finished /\ returned = "True"
    /\ failed = {"updKczxrs", "saveYh", "updKcnrSfydNew"}
    /\ Iterations >= 3

\* C4: a Workflow B run whose registration succeeded issues exactly the four
\* requests add_record, update_online_count, save_user_behavior and one
\* update_progress(100, video_duration, "1"), in this order, and returns True
\* exactly when that update_progress call succeeded.
C4_FastCompleteRequests ==
    (ModeB /\ Registered /\ Finished)
        => /\ log = <<add_record(parsed.kcnrid, parsed.kcid),
                      update_online_count(parsed.kcid),
                      save_user_behavior(yhdm),
                      FinalRequest>>
           /\ returned = (IF "updKcnrSfydNew" \in failed THEN "False" ELSE "True")

\* the progress call failed, the two calls before it did too
C4_Witness ==
    /\ ModeB /\ Registered /\ Finished
    /\ returned = "False"
    /\ failed = {"updKczxrs", "saveYh", "updKcnrSfydNew"}

\* (Iterations - 1) * interval * speed <= duration, exactly, in integers
WithinIterationBound ==
    (Iterations - 1) * S.num * I.num * (10 ^ D.dec)
        <= D.num * (10 ^ (S.dec + I.dec))

RequiredFields == {"token", "cookie", "kcnrid", "kcid", "ssmlid"}

\* an input that ends main before any workflow
InvalidInput ==
    \/ pc # "read_curl" /\ \E f \in RequiredFields : parsed[f] \in {None, ""}
    \/ entered.yhdm = ""
    \/ entered.duration # NotAsked /\ ~entered.duration.numeric
    \/ entered.choice \notin {None, "1", "2"}

\* C6: main issues no request and starts no workflow when a required field
\* was not extracted, the typed learner identifier is empty, the duration is
\* not a number, or the mode is neither "1" nor "2".
C6_InvalidInputNoRequest ==
    InvalidInput => /\ log = <<>>
                    /\ Finished
                    /\ returned = None

\* every field was extracted, the duration is a number, the mode is invalid
C6_Witness ==
    /\ AllRequired(parsed) /\ entered.duration.numeric
    /\ entered.choice = "3"
    /\ Finished /\ log = <<>>

\* floor(100 * k * interval * speed / duration), exactly, in integers
ExactPercentage(k) ==
    (100 * k * S.num * I.num * (10 ^ D.dec)) \div (D.num * (10 ^ (S.dec + I.dec)))

\* C7: in a Workflow A run with duration > 0 and interval * speed > 0 whose
\* registration succeeded, the update of loop iteration k carries the
\* percentage floor(100 * k * interval * speed / duration) (for duration 10,
\* speed 2.0, interval 0.4: 0, 8, 16, ..., 96).
C7_ExactPercentages ==
    (PositiveRun /\ Registered)
        => \A n \in LoopUpdates : log[n].bfjd = ExactPercentage(IterationOf(n))

Count100 == Cardinality({n \in Updates : log[n].bfjd = 100})

\* C8 as claimed: a Workflow A run with duration > 0 and interval * speed > 0
\* that returns has sent two updates with percentage 100, one from the loop's
\* last iteration and the forced final one.
C8_TwoCompletionUpdates ==
    (PositiveRun /\ Registered /\ Finished /\ returned = "True")
        => /\ Count100 = 2
           /\ \E n \in LoopUpdates : log[n].bfjd = 100 /\ log[n].sfyd = "1"

\* C8 amended: in such a run no loop iteration reports 100: every update of
\* the loop carries a percentage below 100 and flag "0", the loop is never
\* left by its break, and a run that returns has sent exactly one update
\* with percentage 100, the forced final one, as its last request.
C8_OneCompletionUpdate ==
    (PositiveRun /\ Registered)
        => /\ \A n \in LoopUpdates : log[n].bfjd < 100 /\ log[n].sfyd = "0"
           /\ pc = "A_final" => ~LoopCondition(current_time, video_duration)
           /\ (Finished /\ returned = "True")
                 => /\ Count100 = 1
                    /\ Last(log) = FinalRequest

\* duration 1, step 0.1: the loop's last update carries 99, then the final 100
C8_Witness ==
    /\ PositiveRun /\ Registered /\ Finished /\ returned = "True"
    /\ Count100 = 1
    /\ \E n \in LoopUpdates : log[n].bfjd = 99 /\ n = Len(log) - 1

\* C9: every update_progress request of either workflow carries flag "1"
\* exactly when its percentage is 100, and flag "0" below 100.
C9_FlagIffComplete ==
    \A n \in Updates :
        /\ log[n].sfyd = "1" <=> log[n].bfjd = 100
        /\ log[n].bfjd < 100 => log[n].sfyd = "0"

\* a log with an update below 100 and the update at 100
C9_Witness ==
    /\ \E n \in Updates : log[n].bfjd < 100 /\ log[n].bfjd > 0 /\ log[n].sfyd = "0"
    /\ \E n \in Updates : log[n].bfjd = 100 /\ log[n].sfyd = "1"

\* C10: every update_progress request carries a percentage in 0..100,
\* whatever numbers were entered for duration, speed and interval.
C10_PercentageInRange ==
    \A n \in Updates : log[n].bfjd \in 0..100
====
